---------------------------- MODULE Spec2Model ----------------------------
(***************************************************************************)
(* GreenEye backend: telemetry ingestion (process_incoming_data), the      *)
(* latest-value cache (Redis) and the auto-control evaluator               *)
(* (check_and_apply_auto_control), in the two generations of the code      *)
(* kept in the repository: the top-level modules (src/*.py, "root") and    *)
(* the package src/backend_app ("backend_app").                            *)
(*                                                                         *)
(* JSON numbers are integers in tenths: 24.5 is 245, 250 is 2500.          *)
(* Strings that stand for text of the program (topic segments, payload     *)
(* string values) are sequences of one-character strings.                  *)
(***************************************************************************)
EXTENDS Integers, Sequences, FiniteSets, TLC

VARIABLES
    version,             \* which generation of the code is deployed
    redis_client,        \* services.redis_client is set (connect_redis succeeded)
    latest_sensor_data,  \* Redis keys latest_sensor_data:<id>
    plant_control_state, \* Redis keys plant_control_state:<id>:<device>   (root)
    actuator_state,      \* Redis keys actuator_state:<id>:<actuator>      (backend_app)
    last,                \* what the handler that ran last read, decided and emitted
    watched,             \* the device whose messages, cycles and commands are followed
    hphase,              \* phase of the hysteresis scenario: idle, low, band, high
    hcmds,               \* irrigation actions emitted since the scenario began
    e2e,                 \* stage of the end-to-end scenario: idle, ingested, evaluated
    launch,              \* how the process was started: wsgi, main, flask
    proc,                \* the process is "starting" or "serving" requests
    hook_done,           \* the first-request hook _boot_once has run
    schedulers,          \* the BackgroundSchedulers started, each the set of its job devices
    running,             \* <<scheduler, device>>: auto-control job instances in progress
    segment,             \* the trailing topic segment the followed device publishes on
    devices,             \* rows of the registry table `devices`
    adding,              \* add_device calls in progress, per caller
    reqs,                \* HTTP requests: path and position in the before-request hook
    frame                \* local variables of the call in progress, or None

vars == <<version, redis_client, latest_sensor_data, plant_control_state,
          actuator_state, last, watched, hphase, hcmds, e2e,
          launch, proc, hook_done, schedulers, running, segment, devices, adding,
          reqs, frame>>

\* the state of the process start-up and of its schedulers
boot == <<launch, proc, hook_done, schedulers, running, reqs, frame>>

---------------------------------------------------------------------------
(* Bounds *)

\* longest record of emitted irrigation actions kept for one scenario
MaxLog == 3

\* HTTP requests followed from their arrival
MaxRequests == 2

\* longest series of a report
MaxSeries == 3

\* retries=5, the default of _retry_locked
Retries == 5

\* one decimal digit of a JSON number
Scale == 10

---------------------------------------------------------------------------
(* Python / JSON values *)

PyNone == [k |-> "none"]
JNum(n) == [k |-> "num", n |-> n]
JStr(s) == [k |-> "str", s |-> s]

IsNum(v) == v.k = "num"
IsStr(v) == v.k = "str"

\* dict.get(key): the value, or None when the key is missing
Get(d, key) == IF key \in DOMAIN d THEN d[key] ELSE PyNone

\* truth value of a Python object, as `or` and `if` test it
Truthy(v) ==
    CASE v.k = "none" -> FALSE
      [] v.k = "num"  -> v.n # 0
      [] v.k = "str"  -> Len(v.s) > 0

\* a or b
PyOr(a, b) == IF Truthy(a) THEN a ELSE b

Digits == <<"0", "1", "2", "3", "4", "5", "6", "7", "8", "9">>
IsDigit(c) == \E i \in 1..10 : Digits[i] = c
DigitVal(c) == (CHOOSE i \in 1..10 : Digits[i] = c) - 1

RECURSIVE DecVal(_)
DecVal(s) == IF Len(s) = 0 THEN 0
             ELSE 10 * DecVal(SubSeq(s, 1, Len(s) - 1)) + DigitVal(s[Len(s)])

\* float(text) for plain decimal numerals "ddd" and "ddd.d"; anything else
\* of the value domain raises ValueError, returned here as None
ParseFloat(s) ==
    IF Len(s) > 0 /\ \A i \in 1..Len(s) : IsDigit(s[i])
    THEN JNum(Scale * DecVal(s))
    ELSE IF Len(s) > 2 /\ s[Len(s) - 1] = "."
            /\ \A i \in (1..Len(s)) \ {Len(s) - 1} : IsDigit(s[i])
         THEN JNum(Scale * DecVal(SubSeq(s, 1, Len(s) - 2)) + DigitVal(s[Len(s)]))
         ELSE PyNone

_to_float(x) ==
    CASE x.k = "none" -> PyNone
      [] x.k = "num"  -> x
      [] x.k = "str"  -> ParseFloat(x.s)

\* int(float(x)): truncation toward zero (values are non-negative here)
_to_int(x) ==
    LET f == _to_float(x)
    IN  IF f = PyNone THEN PyNone ELSE JNum((f.n \div Scale) * Scale)

---------------------------------------------------------------------------
(* Text *)

Upper == <<"A", "B", "C", "D", "E", "F", "G", "S">>
Lower == <<"a", "b", "c", "d", "e", "f", "g", "s">>

LowerChar(c) == IF \E i \in 1..Len(Upper) : Upper[i] = c
                THEN Lower[CHOOSE i \in 1..Len(Upper) : Upper[i] = c]
                ELSE c

\* str.lower()
StrLower(s) == [i \in 1..Len(s) |-> LowerChar(s[i])]

UpperChar(c) == IF \E i \in 1..Len(Lower) : Lower[i] = c
                THEN Upper[CHOOSE i \in 1..Len(Lower) : Lower[i] = c]
                ELSE c

\* str.upper()
StrUpper(s) == [i \in 1..Len(s) |-> UpperChar(s[i])]

\* str.strip(): leading and trailing blanks removed
RECURSIVE Strip(_)
Strip(s) ==
    IF Len(s) = 0 THEN s
    ELSE IF s[1] = " " THEN Strip(Tail(s))
    ELSE IF s[Len(s)] = " " THEN Strip(SubSeq(s, 1, Len(s) - 1))
    ELSE s

IsHex(c) == IsDigit(c) \/ c \in {"a", "b", "c", "d", "e", "f"}

Prefix == <<"g", "e", "-", "s", "d", "-">>

\* MatchShortId for a pattern without the optional prefix
M_MatchShortId(r) ==
    IF Len(r) = 4 /\ \A i \in 1..4 : IsHex(r[i]) THEN r ELSE <<>>

\* re.fullmatch(r"(?:ge-sd-)?([0-9a-f]{4})", raw_id): group 1, or <<>> for no match
MatchShortId(r) ==
    IF Len(r) = 4 /\ \A i \in 1..4 : IsHex(r[i]) THEN r
    ELSE IF Len(r) = 10 /\ SubSeq(r, 1, 6) = Prefix /\ \A i \in 7..10 : IsHex(r[i])
         THEN SubSeq(r, 7, 10)
         ELSE <<>>


---------------------------------------------------------------------------
(* Identifiers and inputs *)

ID_6c18 == <<"6", "c", "1", "8">>
ID_2e52 == <<"2", "e", "5", "2">>
ID_ge_sd_6c18 == Prefix \o ID_6c18

\* a MAC address of device 6c18, with colons
Seg_MacColons == <<"2", "4", ":", "6", "F", ":", "2", "8", ":", "A", "B", ":",
                   "6", "C", ":", "1", "8">>

\* forms of the trailing topic segment of device 6c18: short id and device
\* code in two letter cases, the device code between blanks, MAC with colons
\* and MAC with hyphens
Segments == {ID_6c18, StrUpper(ID_6c18), ID_ge_sd_6c18, StrUpper(ID_ge_sd_6c18),
             <<" ">> \o StrUpper(ID_ge_sd_6c18) \o <<" ">>,
             Seg_MacColons,
             [i \in 1..Len(Seg_MacColons) |->
                 IF Seg_MacColons[i] = ":" THEN "-" ELSE Seg_MacColons[i]]}

\* every identifier a cache key is built from
Keys == {ID_6c18, ID_2e52} \cup {StrLower(seg) : seg \in Segments}

\* devices of the registry: each has an auto-control job and accepts manual control
Registered == {ID_6c18, ID_2e52}

Versions == {"root", "backend_app"}

\* accounts that register devices
Users == {1, 2}

\* a row of the table `devices`
Row(mac_address, device_id, owner_user_id) ==
    [mac_address |-> mac_address, device_id |-> device_id,
     owner_user_id |-> owner_user_id]

\* the row of a device registered under its device code GE-SD-XXXX
RowOf(d) == Row(StrUpper(Prefix \o d), d, 1)

\* get_device_by_device_id_any(device_id): the row, or None
get_device_by_device_id_any(device_id) ==
    IF \E r \in devices : r.device_id = device_id
    THEN CHOOSE r \in devices : r.device_id = device_id
    ELSE PyNone

\* no add_device call in progress
NoCalls == [u \in Users |-> [pc |-> "idle"]]

\* no HTTP request has arrived; SpecStart follows the first request only
NoRequests == [q \in 1..MaxRequests |-> [path |-> "", pc |-> "none", ran |-> FALSE]]

\* the moment a handler runs (datetime.utcnow().isoformat())
NowStamp == JStr(<<"n", "o", "w">>)

TextAbc == <<"a", "b", "c">>

\* the payload of the end-to-end scenario, sent on GreenEye/data/ge-sd-6c18
ScenarioPayload == [amb_temp |-> JNum(245), soil_humi |-> JNum(2500)]

\* the topic segment a device of the registry publishes on
SegmentOf(d) == IF d = ID_6c18 THEN ID_ge_sd_6c18 ELSE <<"2", "E", "5", "2">>


EmptyPayload == [x \in {} |-> PyNone]

\* decoded MQTT payloads
Payloads ==
    {[soil_humi |-> JNum(m)] : m \in {2500, 3000, 7000, 7500}}
    \cup {[amb_light |-> JNum(l)] : l \in {4000, 5000, 8000, 9000}}
    \cup {[soil_humi |-> JNum(2500), amb_light |-> JNum(l)] : l \in {4000, 9000}}
    \cup {[soil_humi |-> JNum(7500), amb_light |-> JNum(l)] : l \in {4000, 9000}}
    \cup {ScenarioPayload,
          [comment |-> JStr(TextAbc)],
          [soil_humi |-> PyNone],
          [soil_humi |-> JStr(TextAbc)],
          [plant_img |-> JStr(TextAbc), soil_humi |-> JNum(2500)],
          EmptyPayload}

\* local hours (Asia/Seoul) at which an evaluation may run
Hours == {6, 7, 20, 21}

\* outcome of one publish: acknowledged, or failed (exception, timeout, rc # 0)
PublishResults == {"ok", "failed"}

---------------------------------------------------------------------------
(* Redis *)

\* get_redis_data(key): None when the client is unset or the key is missing
get_redis_data(store, id) ==
    IF ~redis_client THEN PyNone
    ELSE IF store[id] = PyNone THEN PyNone ELSE store[id]

\* set_redis_data writing the value over the fields of the old entry
M_set_redis_data(store, id, value) ==
    IF ~redis_client THEN store
    ELSE IF store[id] = PyNone THEN [store EXCEPT ![id] = value]
    ELSE [store EXCEPT ![id] =
            [f \in DOMAIN store[id] \cup DOMAIN value |->
                IF f \in DOMAIN value THEN value[f] ELSE store[id][f]]]

\* set_redis_data(key, value): skipped when the client is unset
set_redis_data(store, id, value) ==
    IF ~redis_client THEN store ELSE [store EXCEPT ![id] = value]

---------------------------------------------------------------------------
(* process_incoming_data *)

\* device_id of a message, root: topic.split("/")[-1].lower()
RootDeviceId(seg) == StrLower(seg)

\* device_id of a message, backend_app: short id when the segment matches
BackendDeviceId(seg) ==
    LET raw_id == StrLower(Strip(seg))
        m == MatchShortId(raw_id)
    IN  IF m # <<>> THEN m ELSE raw_id

\* normalize_device_id(raw) of the API: the short id of a device code
normalize_device_id(raw) ==
    LET r == StrLower(Strip(raw))
    IN  IF raw = <<>> THEN raw
        ELSE IF Len(r) = 10 /\ SubSeq(r, 1, 6) = Prefix /\ \A i \in 7..10 : IsHex(r[i])
             THEN SubSeq(r, 7, 10)
             ELSE r

\* _to_device_id_from_any(s): the text after a leading "ge-sd-", without
\* colons and hyphens, last four characters, lower case
_to_device_id_from_any(text) ==
    LET t0 == Strip(text)
        t1 == IF Len(t0) >= 6 /\ StrLower(SubSeq(t0, 1, 6)) = Prefix
              THEN SubSeq(t0, 7, Len(t0)) ELSE t0
        t2 == SelectSeq(t1, LAMBDA c : c \notin {":", "-"})
    IN  IF text = <<>> THEN <<>>
        ELSE StrLower(IF Len(t2) <= 4 THEN t2 ELSE SubSeq(t2, Len(t2) - 3, Len(t2)))

CanonicalFields == {"battery", "temperature", "humidity", "light_lux",
                    "soil_temp", "soil_moisture", "soil_ec"}

\* the payload keys accepted for each canonical field
AliasTable ==
    [battery       |-> <<"battery", "bat_level", "bat">>,
     temperature   |-> <<"temperature", "amb_temp", "temp">>,
     humidity      |-> <<"humidity", "amb_humi", "hum">>,
     light_lux     |-> <<"light_lux", "amb_light", "lux">>,
     soil_temp     |-> <<"soil_temp">>,
     soil_moisture |-> <<"soil_moisture", "soil_humi">>,
     soil_ec       |-> <<"soil_ec">>]

\* _pick(d, *keys): the first value that is present and not None
RECURSIVE _pick(_, _)
_pick(d, keys) ==
    IF keys = <<>> THEN PyNone
    ELSE IF Get(d, Head(keys)) # PyNone THEN Get(d, Head(keys))
    ELSE _pick(d, Tail(keys))

AliasesOf(field) == {AliasTable[field][i] : i \in 1..Len(AliasTable[field])}

RootFields(payload) ==
    [battery       |-> Get(payload, "bat_level"),
     temperature   |-> Get(payload, "amb_temp"),
     humidity      |-> Get(payload, "amb_humi"),
     light_lux     |-> Get(payload, "amb_light"),
     soil_temp     |-> Get(payload, "soil_temp"),
     soil_moisture |-> Get(payload, "soil_humi"),
     soil_ec       |-> Get(payload, "soil_ec")]

BackendFields(payload) ==
    [battery       |-> _to_int(PyOr(Get(payload, "battery"), Get(payload, "bat_level"))),
     temperature   |-> _to_float(PyOr(Get(payload, "temperature"), Get(payload, "amb_temp"))),
     humidity      |-> _to_float(PyOr(Get(payload, "humidity"), Get(payload, "amb_humi"))),
     light_lux     |-> _to_float(PyOr(Get(payload, "light_lux"), Get(payload, "amb_light"))),
     soil_temp     |-> _to_float(Get(payload, "soil_temp")),
     soil_moisture |-> _to_float(PyOr(Get(payload, "soil_moisture"), Get(payload, "soil_humi"))),
     soil_ec       |-> _to_float(Get(payload, "soil_ec")),
     comment       |-> Get(payload, "comment")]

\* {k: v for k, v in fields.items() if v is not None}
ValidFields(fields) ==
    [f \in {g \in DOMAIN fields : fields[g] # PyNone} |-> fields[f]]

\* {"timestamp": ts, **valid_fields}
RedisDoc(ts, valid_fields) ==
    [f \in DOMAIN valid_fields \cup {"timestamp"} |->
        IF f \in DOMAIN valid_fields THEN valid_fields[f] ELSE ts]

NoEval == [hour |-> 0, sm |-> PyNone, lux |-> PyNone, pump |-> "n/a", led |-> "n/a"]

\* what one handler did to the stores that keep no state here: write attempts
\* on the time-series store, points stored, clients replaced, image file
\* written, plant_images row inserted, latest_image and latest_ai_diagnosis set
NoIO == [attempts |-> 0, stored |-> 0, fresh |-> 0, file |-> FALSE, meta |-> FALSE,
         latest_image |-> FALSE, latest_ai |-> FALSE]

\* the record `last` of a handler
\* (point: the fields of the time-series point handed to the writer, or None)
Last(op, dev, ev, outcome, cmds, point) ==
    [op |-> op, dev |-> dev, hour |-> ev.hour, sm |-> ev.sm, lux |-> ev.lux,
     pump |-> ev.pump, led |-> ev.led, outcome |-> outcome, cmds |-> cmds,
     point |-> point, seg |-> <<>>, msg |-> PyNone, io |-> NoIO]

\* the steps of a handler that depend on the outside: a write API of the
\* time-series store can be had, the first and the second write succeed, the
\* image files can be written, the registry database answers
Healthy == [api |-> TRUE, w1 |-> "ok", w2 |-> "ok", disk |-> "ok", db |-> "ok"]

\* the healthy outside, and the outside with one step failing (the write
\* failing once, or failing again on the retry)
Envs == {Healthy,
         [Healthy EXCEPT !.api = FALSE],
         [Healthy EXCEPT !.w1 = "failed"],
         [Healthy EXCEPT !.w1 = "failed", !.w2 = "failed"],
         [Healthy EXCEPT !.disk = "failed"],
         [Healthy EXCEPT !.db = "insert_fails"],
         [Healthy EXCEPT !.db = "down"]}

\* write_sensor_data_to_influxdb, root: one write, its failure is logged
\* (raised: an exception leaves the function)
RootWrite(env) ==
    IF ~env.api THEN [attempts |-> 0, stored |-> 0, fresh |-> 0, raised |-> FALSE]
    ELSE IF env.w1 = "ok" THEN [attempts |-> 1, stored |-> 1, fresh |-> 0, raised |-> FALSE]
    ELSE [attempts |-> 1, stored |-> 0, fresh |-> 0, raised |-> FALSE]

\* BackendWrite without the try statement around the retry
M_BackendWrite(env) ==
    IF ~env.api THEN [attempts |-> 0, stored |-> 0, fresh |-> 0, raised |-> FALSE]
    ELSE IF env.w1 = "ok" THEN [attempts |-> 1, stored |-> 1, fresh |-> 0, raised |-> FALSE]
    ELSE IF env.w2 = "ok" THEN [attempts |-> 2, stored |-> 1, fresh |-> 1, raised |-> FALSE]
    ELSE [attempts |-> 2, stored |-> 0, fresh |-> 1, raised |-> TRUE]

\* write_sensor_data_to_influxdb, backend_app: a failed write is retried once
\* with a fresh client; the failure of the retry is logged
BackendWrite(env) ==
    IF ~env.api THEN [attempts |-> 0, stored |-> 0, fresh |-> 0, raised |-> FALSE]
    ELSE IF env.w1 = "ok" THEN [attempts |-> 1, stored |-> 1, fresh |-> 0, raised |-> FALSE]
    ELSE IF env.w2 = "ok" THEN [attempts |-> 2, stored |-> 1, fresh |-> 1, raised |-> FALSE]
    ELSE [attempts |-> 2, stored |-> 0, fresh |-> 1, raised |-> FALSE]

write_sensor_data_to_influxdb(env) ==
    IF version = "root" THEN RootWrite(env) ELSE BackendWrite(env)

\* image texts: hex of a JPEG header, and base64 of a JPEG
HexImage == <<"F", "F", "D", "8">>
B64Image == <<"/", "9", "j", "/">>

\* bytes.fromhex(text) succeeds
IsHexText(text) ==
    /\ Len(text) > 0
    /\ Len(text) % 2 = 0
    /\ \A i \in 1..Len(text) : IsHex(LowerChar(text[i]))

\* base64.b64decode(text) and Image.open of the bytes: "raise" (binascii.Error),
\* "notimage" (Image.open raises) or "image"
B64Decode(text) ==
    IF Len(text) % 4 # 0 THEN "raise"
    ELSE IF text = B64Image THEN "image" ELSE "notimage"

\* ImageWritten inserting the plant_images row whether or not a MAC was found
M_ImageWritten(mac, env) ==
    IF env.disk # "ok" THEN [io |-> NoIO, outcome |-> "error"]
    ELSE [io |-> [NoIO EXCEPT !.file = TRUE,
                              !.meta = (env.db = "ok"),
                              !.latest_image = redis_client,
                              !.latest_ai = redis_client],
          outcome |-> "image"]

\* the image branch: what is written, and how the branch ends
ImageWritten(mac, env) ==
    IF env.disk # "ok" THEN [io |-> NoIO, outcome |-> "error"]
    ELSE [io |-> [NoIO EXCEPT !.file = TRUE,
                              !.meta = (mac # PyNone /\ env.db = "ok"),
                              !.latest_image = redis_client,
                              !.latest_ai = redis_client],
          outcome |-> "image"]

RootImage(image_hex, mac, env) ==
    IF ~Truthy(image_hex) THEN [io |-> NoIO, outcome |-> "image_skipped"]
    ELSE IF ~IsStr(image_hex) \/ ~IsHexText(image_hex.s)
         THEN [io |-> NoIO, outcome |-> "error"]
         ELSE ImageWritten(mac, env)

BackendImage(image_base64, mac, env) ==
    IF ~(Truthy(image_base64) /\ IsStr(image_base64))
    THEN [io |-> NoIO, outcome |-> "image_skipped"]
    ELSE CASE B64Decode(image_base64.s) = "raise" ->
                 [io |-> NoIO, outcome |-> "image_error"]
           [] B64Decode(image_base64.s) = "notimage" ->
                 [io |-> NoIO, outcome |-> "error"]
           [] B64Decode(image_base64.s) = "image" -> ImageWritten(mac, env)

\* a decoded payload is a JSON object (and not a number, a string or null)
IsDict(payload) == "k" \notin DOMAIN payload

\* a message as the broker delivers it: JSON text of a value, or bytes that
\* no repair turns into JSON
Json(obj) == [text |-> "json", obj |-> obj]
Garbage == [text |-> "garbage", obj |-> PyNone]

\* IsImageMessage deciding by the value of plant_img
M_IsImageMessage(payload) ==
    "plant_img" \in DOMAIN payload /\ Truthy(Get(payload, "plant_img"))

\* `"plant_img" in payload`: the message is an image frame
IsImageMessage(payload) == "plant_img" \in DOMAIN payload

\* one message on GreenEye/data/<seg>
process_incoming_data(seg, payload, env) ==
    LET device_id == IF version = "root" THEN RootDeviceId(seg) ELSE BackendDeviceId(seg)
        dev == get_device_by_device_id_any(device_id)
        mac == IF dev # PyNone THEN JStr(dev.mac_address) ELSE PyNone
        fields == IF version = "root" THEN RootFields(payload) ELSE BackendFields(payload)
        valid_fields == ValidFields(fields)
        ts == IF version = "root" THEN NowStamp
              ELSE PyOr(PyOr(PyOr(Get(payload, "_time"), Get(payload, "time")),
                             Get(payload, "timestamp")), NowStamp)
        image == IF version = "root" THEN RootImage(Get(payload, "plant_img"), mac, env)
                 ELSE BackendImage(Get(payload, "plant_img"), mac, env)
        written == write_sensor_data_to_influxdb(env)
        Done(op, outcome, point, io) ==
            last' = [Last(op, device_id, NoEval, outcome, <<>>, point)
                        EXCEPT !.seg = seg, !.msg = Json(payload), !.io = io]
    IN  /\ device_id \in Keys
        /\ e2e' = IF seg = ID_ge_sd_6c18 /\ payload = ScenarioPayload
                  THEN "ingested" ELSE "idle"
        /\ IF env.db = "down" \/ ~IsDict(payload)
           THEN /\ Done("ingest", "error", PyNone, NoIO)
                /\ UNCHANGED latest_sensor_data
           ELSE IF IsImageMessage(payload)
           THEN /\ Done("image", image.outcome, PyNone, image.io)
                /\ UNCHANGED latest_sensor_data
           ELSE IF DOMAIN valid_fields # {}
                THEN /\ latest_sensor_data' =
                            IF written.raised THEN latest_sensor_data
                            ELSE set_redis_data(latest_sensor_data, device_id,
                                                RedisDoc(ts, valid_fields))
                     /\ Done("ingest", IF written.raised THEN "error" ELSE "stored",
                             valid_fields,
                             [NoIO EXCEPT !.attempts = written.attempts,
                                          !.stored = written.stored,
                                          !.fresh = written.fresh])
                ELSE /\ Done("ingest", "discarded", PyNone, NoIO)
                     /\ UNCHANGED latest_sensor_data
        /\ UNCHANGED <<version, redis_client, plant_control_state, actuator_state,
                       watched, hphase, hcmds, segment, devices, adding>>

\* OnMessageExcept without the try statement around the decoding
M_OnMessageExcept(raised) == "escaped"

\* the except clause of on_message: what the decoding raised is logged
OnMessageExcept(raised) == "decode_error"

\* on_message: decode the payload, process it, log whatever is raised
on_message(seg, msg, env) ==
    IF msg.text = "json" THEN process_incoming_data(seg, msg.obj, env)
    ELSE /\ last' = [Last("ingest", <<>>, NoEval, OnMessageExcept("JSONDecodeError"),
                          <<>>, PyNone)
                        EXCEPT !.seg = seg, !.msg = msg]
         /\ e2e' = "idle"
         /\ UNCHANGED <<version, redis_client, latest_sensor_data, plant_control_state,
                        actuator_state, watched, hphase, hcmds, segment, devices,
                        adding>>

\* a latest_sensor_data key expires or is deleted in Redis
Expire(id) ==
    /\ redis_client
    /\ latest_sensor_data[id] # PyNone
    /\ latest_sensor_data' = [latest_sensor_data EXCEPT ![id] = PyNone]
    /\ last' = Last("expire", id, NoEval, "expired", <<>>, PyNone)
    /\ hphase' = IF id = watched THEN "idle" ELSE hphase
    /\ hcmds' = IF id = watched THEN <<>> ELSE hcmds
    /\ e2e' = "idle"
    /\ UNCHANGED <<version, redis_client, plant_control_state, actuator_state, watched,
                   segment, devices, adding>>

---------------------------------------------------------------------------
(* Commands *)

JInt(n) == JNum(n * Scale)

\* thresholds of check_and_apply_auto_control
LowMoisture == 300
HighMoisture == 700
LowLux == 500
HighLux == 800
DayStart == 7
DayEnd == 20

Actuators == {"water_pump", "led"}

\* Redis key suffix of an actuator's cached state, per generation
StateKey(actuator) ==
    IF version = "root" THEN actuator
    ELSE IF actuator = "led" THEN "flash" ELSE actuator


\* the cache entry of (device, actuator) as Redis holds it
CachedEntry(id, actuator) ==
    IF version = "root" THEN plant_control_state[<<id, StateKey(actuator)>>]
    ELSE actuator_state[<<id, StateKey(actuator)>>]

\* current_pump_status, root: pump_state_data.get("status") if pump_state_data else "off"
RootStatus(entry) == IF entry = PyNone THEN "off" ELSE entry.status

\* current_pump_status, backend_app
BackendPumpStatus(entry) ==
    IF entry = PyNone THEN "off"
    ELSE IF "status" \in DOMAIN entry THEN entry.status ELSE "missing"

\* current_led_status, backend_app: led_state_data.get("flash_en") if led_state_data else 0
BackendLedStatus(entry) == IF entry = PyNone THEN JInt(0) ELSE Get(entry, "flash_en")

\* the state of an actuator as the evaluator of the deployed generation reads it
ReadStatus(id, actuator) ==
    LET entry == IF redis_client THEN CachedEntry(id, actuator) ELSE PyNone
    IN  IF version = "root" THEN RootStatus(entry)
        ELSE IF actuator = "water_pump" THEN BackendPumpStatus(entry)
        ELSE LET en == BackendLedStatus(entry)
             IN  IF en = JInt(1) THEN "on" ELSE IF en = JInt(0) THEN "off" ELSE "missing"

\* a command handed to the publisher, and its topic: plant/control/<id>/<device> (root, publish_mqtt_message
\* with retain=False) or GreenEye/gardening/<id> (backend_app, retain=True)
Cmd(dev, actuator, action, body, result, before, after) ==
    [actuator |-> actuator, action |-> action, body |-> body, result |-> result,
     before |-> before, after |-> after, topic |-> IF version = "root" THEN <<"plant/control", dev, actuator>>
               ELSE <<"GreenEye/gardening", dev>>,
     retain |-> (version # "root")]

RootBody(action, duration_sec) == [action |-> action, duration_sec |-> JInt(duration_sec)]

\* RootPumpRule with the low threshold taken inclusively
M_RootPumpRule(soil_moisture, current_pump_status) ==
    IF soil_moisture = PyNone THEN "none"
    ELSE IF ~IsNum(soil_moisture) THEN "raise"
    ELSE IF soil_moisture.n <= LowMoisture * Scale /\ current_pump_status # "on" THEN "on"
    ELSE IF soil_moisture.n > HighMoisture * Scale /\ current_pump_status # "off" THEN "off"
    ELSE "none"

\* the decision of the irrigation rule: "on", "off", "none", or "raise" (TypeError)
RootPumpRule(soil_moisture, current_pump_status) ==
    IF soil_moisture = PyNone THEN "none"
    ELSE IF ~IsNum(soil_moisture) THEN "raise"
    ELSE IF soil_moisture.n < LowMoisture * Scale /\ current_pump_status # "on" THEN "on"
    ELSE IF soil_moisture.n > HighMoisture * Scale /\ current_pump_status # "off" THEN "off"
    ELSE "none"

BackendPumpRule(soil_moisture, current_pump_status) ==
    IF soil_moisture = PyNone THEN "none"
    ELSE IF ~IsNum(soil_moisture) THEN "raise"
    ELSE IF soil_moisture.n < LowMoisture * Scale /\ current_pump_status # "on" THEN "on"
    ELSE IF soil_moisture.n > HighMoisture * Scale /\ current_pump_status # "off" THEN "off"
    ELSE "none"

\* the decision of the lighting rule, root
RootLightRule(light_lux, hour, current_led_status) ==
    IF light_lux # PyNone /\ DayStart <= hour /\ hour <= DayEnd
    THEN IF ~IsNum(light_lux) THEN "raise"
         ELSE IF light_lux.n < LowLux * Scale /\ current_led_status # "on" THEN "on"
         ELSE IF light_lux.n > HighLux * Scale /\ current_led_status # "off" THEN "off"
         ELSE "none"
    ELSE IF light_lux # PyNone
         THEN IF current_led_status # "off" THEN "off" ELSE "none"
         ELSE "none"

\* the decision of the lighting rule, backend_app: "night" is the else branch
BackendLightRule(light_lux, hour, current_led_status) ==
    IF light_lux # PyNone /\ DayStart <= hour /\ hour <= DayEnd
    THEN IF ~IsNum(light_lux) THEN "raise"
         ELSE IF light_lux.n < LowLux * Scale /\ current_led_status # JInt(1) THEN "on"
         ELSE IF light_lux.n > HighLux * Scale /\ current_led_status # JInt(0) THEN "off"
         ELSE "none"
    ELSE IF current_led_status # JInt(0) THEN "night" ELSE "none"

\* the configuration payloads the backend_app evaluator sends
BackendBody(actuator, decision) ==
    CASE actuator = "water_pump" /\ decision = "on" ->
            [water_pump_action |-> JInt(1), water_pump_duration |-> JInt(5)]
      [] actuator = "water_pump" /\ decision = "off" ->
            [water_pump_action |-> JInt(0)]
      [] actuator = "led" /\ decision = "on" ->
            [flash_en |-> JInt(1), flash_level |-> JInt(128)]
      [] actuator = "led" /\ decision = "off" ->
            [flash_en |-> JInt(0)]
      [] actuator = "led" /\ decision = "night" ->
            [flash_en |-> JInt(0), flash_nt |-> JInt(1), flash_level |-> JInt(180)]

\* the action a decision commands
ActionOf(decision) == IF decision = "night" THEN "off" ELSE decision

---------------------------------------------------------------------------
(* check_and_apply_auto_control *)

LedToken(en) == IF en = JInt(1) THEN "on" ELSE IF en = JInt(0) THEN "off" ELSE "missing"

\* where a soil-moisture reading lies with respect to the two thresholds
Zone(sm) ==
    IF ~IsNum(sm) THEN "none"
    ELSE IF sm.n < LowMoisture * Scale THEN "low"
    ELSE IF sm.n <= HighMoisture * Scale THEN "band" ELSE "high"

\* the scenario "below the low threshold, then in the dead band, then above the
\* high threshold", followed over the evaluation cycles of the watched device;
\* it is dropped when its log would outgrow MaxLog
Watch(d, sm, pump, emitted) ==
    IF d # watched THEN UNCHANGED <<hphase, hcmds>>
    ELSE LET continues == <<hphase, Zone(sm)>> \in
                 {<<"low", "low">>, <<"low", "band">>, <<"band", "band">>,
                  <<"band", "high">>, <<"high", "high">>}
             starts == Zone(sm) = "low" /\ pump = "off"
             log == IF continues THEN hcmds \o emitted
                    ELSE IF starts THEN emitted ELSE <<>>
         IN  IF Len(log) > MaxLog
             THEN hphase' = "idle" /\ hcmds' = <<>>
             ELSE /\ hphase' = IF continues THEN Zone(sm)
                               ELSE IF starts THEN "low" ELSE "idle"
                  /\ hcmds' = log

\* the cached state after a command: root writes it, backend_app does not
StateAfterSend(entry, action) ==
    IF version = "root" THEN
        IF redis_client THEN [status |-> action] ELSE entry
    ELSE entry

\* NoLatest without the early return
M_NoLatest(latest) == FALSE

\* `if not latest`: no cached reading
NoLatest(latest) == latest = PyNone

\* one evaluation cycle of device d at local hour `hour`, from the values it
\* read: the latest reading and the cached entries of the pump and of the
\* LED; r1 and r2 are the outcomes of the publishes of the irrigation and of
\* the lighting command
Cycle(d, hour, r1, r2, latest, pumpEntry, ledEntry) ==
    IF NoLatest(latest)
    THEN /\ last' = Last("eval", d, [NoEval EXCEPT !.hour = hour], "no_data", <<>>, PyNone)
         /\ Watch(d, PyNone, "n/a", <<>>)
         /\ e2e' = "idle"
         /\ UNCHANGED <<version, redis_client, latest_sensor_data,
                        plant_control_state, actuator_state, watched,
                        segment, devices, adding>>
    ELSE
    LET soil_moisture == Get(latest, "soil_moisture")
        light_lux == Get(latest, "light_lux")
        current_pump_status == IF version = "root" THEN RootStatus(pumpEntry)
                               ELSE BackendPumpStatus(pumpEntry)
        current_led_status == IF version = "root" THEN RootStatus(ledEntry)
                              ELSE BackendLedStatus(ledEntry)
        pd == IF version = "root" THEN RootPumpRule(soil_moisture, current_pump_status)
              ELSE BackendPumpRule(soil_moisture, current_pump_status)
        ld == IF pd = "raise" THEN "none"
              ELSE IF version = "root"
                   THEN RootLightRule(light_lux, hour, current_led_status)
                   ELSE BackendLightRule(light_lux, hour, current_led_status)
        pumpAfter == StateAfterSend(pumpEntry, pd)
        ledAfter == StateAfterSend(ledEntry, ActionOf(ld))
        pumpCmds == IF pd \in {"on", "off"}
                    THEN <<Cmd(d, "water_pump", pd,
                               IF version = "root"
                               THEN RootBody(pd, IF pd = "on" THEN 5 ELSE 0)
                               ELSE BackendBody("water_pump", pd),
                               r1, pumpEntry, pumpAfter)>>
                    ELSE <<>>
        ledCmds == IF ld \in {"on", "off", "night"}
                   THEN <<Cmd(d, "led", ActionOf(ld),
                              IF version = "root" THEN RootBody(ActionOf(ld), 0)
                              ELSE BackendBody("led", ld),
                              r2, ledEntry, ledAfter)>>
                   ELSE <<>>
        ev == [hour |-> hour, sm |-> soil_moisture, lux |-> light_lux,
               pump |-> current_pump_status,
               led |-> IF version = "root" THEN current_led_status
                       ELSE LedToken(current_led_status)]
    IN  /\ last' = Last("eval", d, ev,
                        IF pd = "raise" \/ ld = "raise" THEN "raised" ELSE "done",
                        pumpCmds \o ledCmds, PyNone)
        /\ IF version = "root"
           THEN /\ plant_control_state' =
                      [plant_control_state EXCEPT
                          ![<<d, "water_pump">>] =
                              IF pumpCmds # <<>> THEN pumpAfter ELSE @,
                          ![<<d, "led">>] =
                              IF ledCmds # <<>> THEN ledAfter ELSE @]
                /\ UNCHANGED actuator_state
           ELSE UNCHANGED <<plant_control_state, actuator_state>>
        /\ Watch(d, soil_moisture, current_pump_status,
                 [i \in 1..Len(pumpCmds) |-> pumpCmds[i].action])
        /\ e2e' = IF e2e = "ingested" /\ d = ID_6c18 /\ current_pump_status = "off"
                  THEN "evaluated" ELSE "idle"
        /\ UNCHANGED <<version, redis_client, latest_sensor_data, watched,
                       segment, devices, adding>>

\* check_and_apply_auto_control(d) run without another handler in between
check_and_apply_auto_control(d, hour, r1, r2) ==
    Cycle(d, hour, r1, r2, get_redis_data(latest_sensor_data, d),
          CachedEntry(d, "water_pump"), CachedEntry(d, "led"))

---------------------------------------------------------------------------
(* send_config_to_device of the root services module and manual control *)

\* PRESET_MODES "Z" and "L", and a request that sets only the flash level
RootConfigs ==
    {[pwr_mode |-> JStr(<<"Z">>), nht_mode |-> JInt(1), flash_en |-> JInt(0),
      flash_nt |-> JInt(0), flash_level |-> JInt(0)],
     [pwr_mode |-> JStr(<<"L">>), nht_mode |-> JInt(1), flash_en |-> JInt(1),
      flash_nt |-> JInt(0), flash_level |-> JInt(120)],
     [flash_level |-> JInt(128)]}

AllowedInt == [flash_en |-> <<0, 1>>, flash_nt |-> <<0, 1>>,
               flash_level |-> <<0, 255>>, nht_mode |-> <<0, 1>>]
AllowedStr == {<<"Z">>, <<"L">>, <<"M">>, <<"H">>, <<"U">>}

\* a Python int: a number without a fractional part
IsPyInt(v) == IsNum(v) /\ v.n % Scale = 0

\* the allow-list filter of send_config_to_device (root)
RootToSend(config_payload) ==
    LET ok(key) ==
            LET v == config_payload[key]
            IN  IF key \in DOMAIN AllowedInt
                THEN /\ IsPyInt(v)
                     /\ AllowedInt[key][1] * Scale <= v.n
                     /\ v.n <= AllowedInt[key][2] * Scale
                ELSE /\ key = "pwr_mode"
                     /\ IsStr(v)
                     /\ v.s \in AllowedStr
    IN  [key \in {x \in DOMAIN config_payload : ok(x)} |-> config_payload[key]]

\* the entry written under actuator_state:<id>:flash, or None when none is written
RootFlashState(to_send) ==
    IF DOMAIN to_send \cap {"flash_en", "flash_nt", "flash_level"} # {}
    THEN [key \in DOMAIN to_send \cup {"ts"} |->
            IF key \in DOMAIN to_send THEN to_send[key] ELSE NowStamp]
    ELSE PyNone

\* entries an earlier deployment of the root services module left in Redis
LeftoverFlash == {PyNone} \cup {RootFlashState(RootToSend(c)) : c \in RootConfigs}

\* config_payload of handle_manual_control (backend_app)
BackendManualBody(device_type, action, duration_sec) ==
    CASE device_type = "water_pump" ->
            [water_pump_action |-> JInt(IF action = "on" THEN 1 ELSE 0),
             water_pump_duration |-> JInt(duration_sec)]
      [] device_type = "led" ->
            [flash_en |-> JInt(IF action = "on" THEN 1 ELSE 0)]
      [] device_type = "humidifier" ->
            [humidifier_action |-> JInt(IF action = "on" THEN 1 ELSE 0)]

\* a manual control command from the API; r is the outcome of the publish
handle_manual_control(d, device_type, action, r) ==
    /\ version = "root" => device_type \in Actuators
    /\ LET entry == IF device_type \in Actuators THEN CachedEntry(d, device_type)
                    ELSE PyNone
           after == IF device_type \in Actuators THEN StateAfterSend(entry, action)
                    ELSE PyNone
           body == IF version = "root" THEN RootBody(action, 0)
                   ELSE BackendManualBody(device_type, action, 0)
       IN  /\ last' = Last("manual", d, NoEval, "sent",
                           <<Cmd(d, device_type, action, body, r, entry, after)>>,
                           PyNone)
           /\ IF version = "root"
              THEN plant_control_state' =
                      [plant_control_state EXCEPT ![<<d, device_type>>] = after]
              ELSE UNCHANGED plant_control_state
    /\ hphase' = IF d = watched /\ device_type = "water_pump" THEN "idle" ELSE hphase
    /\ hcmds' = IF d = watched /\ device_type = "water_pump" THEN <<>> ELSE hcmds
    /\ e2e' = "idle"
    /\ UNCHANGED <<version, redis_client, latest_sensor_data, actuator_state, watched,
                   segment, devices, adding>>

\* request bodies of POST /api/control_device/<device_id>
RequestConfigs ==
    {[flash_en |-> JInt(1)],
     [flash_level |-> JInt(999)],
     [flash_en |-> JInt(1), reboot |-> JInt(1)]}

\* control_device (backend_app): the owner's request body goes to
\* send_config_to_device; r is the outcome of the publish
control_device(d, config_data, r) ==
    /\ version = "backend_app"
    /\ \E row \in devices : row.device_id = d
    /\ DOMAIN config_data # {}
    /\ last' = Last("control", d, NoEval, "sent",
                    <<Cmd(d, "config", "config", config_data, r,
                          PyNone, PyNone)>>, PyNone)
    /\ hphase' = IF d = watched THEN "idle" ELSE hphase
    /\ hcmds' = IF d = watched THEN <<>> ELSE hcmds
    /\ e2e' = "idle"
    /\ UNCHANGED <<version, redis_client, latest_sensor_data, plant_control_state,
                   actuator_state, watched, segment, devices, adding>>

---------------------------------------------------------------------------
(* The system *)

Init ==
    /\ version \in Versions
    /\ redis_client \in BOOLEAN
    /\ latest_sensor_data = [id \in Keys |-> PyNone]
    /\ plant_control_state = [key \in Registered \X Actuators |-> PyNone]
    /\ watched \in Registered
    /\ actuator_state \in
          {[key \in Registered \X {"water_pump", "flash"} |->
                IF key = <<watched, "flash">> /\ version = "backend_app" THEN f ELSE PyNone]
             : f \in LeftoverFlash}
    /\ last = Last("init", watched, NoEval, "init", <<>>, PyNone)
    /\ hphase = "idle"
    /\ hcmds = <<>>
    /\ e2e = "idle"
    /\ launch = "flask"
    /\ proc = "serving"
    /\ hook_done = TRUE
    /\ schedulers = <<Registered>>
    /\ running = {}
    /\ segment = SegmentOf(watched)
    /\ devices = {RowOf(d) : d \in Registered}
    /\ adding = NoCalls
    /\ reqs = NoRequests
    /\ frame = PyNone

\* a behaviour follows the handlers that serve the watched device
Ingest ==
    /\ \E payload \in Payloads : on_message(segment, Json(payload), Healthy)
    /\ UNCHANGED boot

Evaluate ==
    /\ \E hour \in Hours, r1, r2 \in PublishResults :
          check_and_apply_auto_control(watched, hour, r1, r2)
    /\ UNCHANGED boot

Manual ==
    /\ \E device_type \in {"water_pump", "led", "humidifier"}, action \in {"on", "off"},
          r \in PublishResults :
          handle_manual_control(watched, device_type, action, r)
    /\ UNCHANGED boot

Expiry == (\E id \in Keys : Expire(id)) /\ UNCHANGED boot

Control ==
    /\ \E config_data \in RequestConfigs, r \in PublishResults :
          control_device(watched, config_data, r)
    /\ UNCHANGED boot

Next == Ingest \/ Evaluate \/ Manual \/ Expiry \/ Control

Spec == Init /\ [][Next]_vars

---------------------------------------------------------------------------
(* Ingestion: the messages of one device under every form of its topic *)

\* a cached reading of another device, stored before the behaviour begins
OtherDoc == RedisDoc(NowStamp, [soil_moisture |-> JNum(7500)])

\* readings, image frames, readings under the short aliases, with the value 0
\* and with numbers sent as text ("40.5" for the battery, "abc" for a
\* temperature), payloads that hold no reading and no image, and messages that
\* are not JSON objects
Messages ==
    {Json(payload) : payload \in
       {[soil_humi |-> JNum(2500)],
        [amb_temp |-> JNum(245)],
        [soil_humi |-> JNum(7500), amb_light |-> JNum(4000)],
        [plant_img |-> JStr(B64Image)],
        [plant_img |-> JStr(HexImage), soil_humi |-> JNum(2500)],
        [plant_img |-> JStr(B64Image), soil_humi |-> JNum(2500)],
        [plant_img |-> JStr(TextAbc), soil_humi |-> JNum(2500)],
        [plant_img |-> JStr(<<>>), soil_humi |-> JNum(2500)],
        [plant_img |-> PyNone, amb_temp |-> JNum(245)],
        [bat |-> JInt(40)],
        [battery |-> JInt(0)],
        [bat_level |-> JStr(<<"4", "0", ".", "5">>)],
        [amb_temp |-> JStr(TextAbc)],
        EmptyPayload, [comment |-> JStr(TextAbc)], [soil_humi |-> PyNone]}}
    \cup {Garbage, Json(JInt(5)), Json(PyNone)}

\* one message of the followed device arrives
Receive ==
    /\ \E msg \in Messages, env \in Envs : on_message(segment, msg, env)
    /\ UNCHANGED boot

InitIngest ==
    /\ version \in Versions
    /\ redis_client = TRUE
    /\ watched = ID_6c18
    /\ segment \in Segments
    /\ latest_sensor_data =
          [id \in Keys |-> IF id = ID_2e52 /\ redis_client THEN OtherDoc ELSE PyNone]
    /\ plant_control_state = [key \in Registered \X Actuators |-> PyNone]
    /\ actuator_state = [key \in Registered \X {"water_pump", "flash"} |-> PyNone]
    /\ devices \in {{RowOf(ID_2e52)}, {RowOf(ID_2e52), RowOf(ID_6c18)}}
    /\ adding = NoCalls
    /\ reqs = NoRequests
    /\ frame = PyNone
    /\ last = Last("init", watched, NoEval, "init", <<>>, PyNone)
    /\ hphase = "idle"
    /\ hcmds = <<>>
    /\ e2e = "idle"
    /\ launch = "flask"
    /\ proc = "serving"
    /\ hook_done = TRUE
    /\ schedulers = <<Registered>>
    /\ running = {}

NextIngest == Receive

SpecIngest == InitIngest /\ [][NextIngest]_vars

---------------------------------------------------------------------------
(* The device registry: add_device, called by the registration endpoint *)

\* _normalize_mac(mac): underscores become hyphens, then upper case
_normalize_mac(mac) ==
    StrUpper([i \in 1..Len(mac) |-> IF mac[i] = "_" THEN "-" ELSE mac[i]])

\* text.split("-")[-1]
RECURSIVE LastSegment(_)
LastSegment(text) ==
    IF \A i \in 1..Len(text) : text[i] # "-" THEN text
    ELSE LastSegment(Tail(text))

\* _derive_device_id_from_mac(mac): the hex digits of the last hyphen
\* segment (the segment itself when it has none), last four, lower case
_derive_device_id_from_mac(mac) ==
    LET tail == LastSegment(_normalize_mac(mac))
        hex_only == SelectSeq(tail, LAMBDA c : IsHex(LowerChar(c)))
        base == IF hex_only # <<>> THEN hex_only ELSE tail
        last4 == IF Len(base) <= 4 THEN base ELSE SubSeq(base, Len(base) - 3, Len(base))
    IN  IF mac = <<>> THEN <<>> ELSE StrLower(last4)

\* MAC addresses handed to add_device: GE-SD-6C18, ab_cd_6c18, GE-SD-2E52
Macs == {StrUpper(ID_ge_sd_6c18),
         <<"a", "b", "_", "c", "d", "_", "6", "c", "1", "8">>,
         StrUpper(Prefix \o ID_2e52)}

\* UniqueViolation for a table without its UNIQUE constraints
M_UniqueViolation(row) == FALSE

\* the UNIQUE constraints of devices(mac_address) and devices(device_id)
UniqueViolation(row) ==
    \E r \in devices :
        r.mac_address = row.mac_address \/ r.device_id = row.device_id

\* a connection holds the write lock from its INSERT to its commit
WriteLocked == \E u \in Users : adding[u].pc = "commit"

\* what the registry steps leave alone
serving == <<version, redis_client, latest_sensor_data, plant_control_state,
             actuator_state, watched, hphase, hcmds, e2e, segment, boot>>

\* the call returns (or raises): `last` records the call and its result
Return(u, outcome) ==
    /\ last' = [Last("add_device", adding[u].device_id, NoEval, outcome, <<>>, PyNone)
                   EXCEPT !.msg = adding[u]]
    /\ adding' = [adding EXCEPT ![u] = [pc |-> "idle"]]

\* add_device(mac_address, friendly_name, owner_user_id) is entered
AddBegin(u, mac_address) ==
    /\ adding[u].pc = "idle"
    /\ LET norm_mac == _normalize_mac(mac_address)
           device_id == _derive_device_id_from_mac(norm_mac)
       IN  adding' = [adding EXCEPT ![u] =
                        [pc |-> "select", mac_address |-> norm_mac,
                         device_id |-> device_id, owner_user_id |-> u,
                         existed |-> \E r \in devices :
                                        \/ r.device_id = device_id
                                        \/ r.mac_address = norm_mac]]
    /\ UNCHANGED <<devices, last, serving>>

\* SELECT 1 FROM devices WHERE device_id=? OR mac_address=?
AddSelect(u) ==
    /\ adding[u].pc = "select"
    /\ IF \E r \in devices : r.device_id = adding[u].device_id
                              \/ r.mac_address = adding[u].mac_address
       THEN Return(u, "False")
       ELSE /\ adding' = [adding EXCEPT ![u].pc = "insert"]
            /\ UNCHANGED last
    /\ UNCHANGED <<devices, serving>>

\* INSERT INTO devices: waits for the write lock; sqlite3.IntegrityError
\* makes the call return False
AddInsert(u) ==
    /\ adding[u].pc = "insert"
    /\ ~WriteLocked
    /\ IF UniqueViolation(Row(adding[u].mac_address, adding[u].device_id, u))
       THEN Return(u, "False")
       ELSE /\ adding' = [adding EXCEPT ![u].pc = "commit"]
            /\ UNCHANGED last
    /\ UNCHANGED <<devices, serving>>

\* the wait for the write lock outlasts the busy timeout: OperationalError
AddTimeout(u) ==
    /\ adding[u].pc = "insert"
    /\ WriteLocked
    /\ Return(u, "raised")
    /\ UNCHANGED <<devices, serving>>

\* conn.commit(); return True
AddCommit(u) ==
    /\ adding[u].pc = "commit"
    /\ devices' = devices \cup
                     {Row(adding[u].mac_address, adding[u].device_id, u)}
    /\ Return(u, "True")
    /\ UNCHANGED serving

InitRegistry ==
    /\ version = "backend_app"
    /\ redis_client = TRUE
    /\ watched = ID_6c18
    /\ segment = SegmentOf(watched)
    /\ latest_sensor_data = [id \in Keys |-> PyNone]
    /\ plant_control_state = [key \in Registered \X Actuators |-> PyNone]
    /\ actuator_state = [key \in Registered \X {"water_pump", "flash"} |-> PyNone]
    /\ devices \in {{}, {RowOf(ID_6c18)}}
    /\ adding = NoCalls
    /\ reqs = NoRequests
    /\ frame = PyNone
    /\ last = Last("init", watched, NoEval, "init", <<>>, PyNone)
    /\ hphase = "idle"
    /\ hcmds = <<>>
    /\ e2e = "idle"
    /\ launch = "flask"
    /\ proc = "serving"
    /\ hook_done = TRUE
    /\ schedulers = <<Registered>>
    /\ running = {}

NextRegistry ==
    \/ \E u \in Users, mac_address \in Macs : AddBegin(u, mac_address)
    \/ \E u \in Users : AddSelect(u)
    \/ \E u \in Users : AddInsert(u)
    \/ \E u \in Users : AddTimeout(u)
    \/ \E u \in Users : AddCommit(u)

SpecRegistry == InitRegistry /\ [][NextRegistry]_vars

---------------------------------------------------------------------------
(* Start-up of backend_app and its auto-control jobs *)

\* the values of the cache, of `last` and of the scenarios that start-up leaves alone
control == <<version, redis_client, latest_sensor_data, plant_control_state,
             actuator_state, last, watched, hphase, hcmds, e2e, segment, devices,
             adding>>

\* init_runtime_and_scheduler: a new BackgroundScheduler is started with one
\* auto-control job per device the registry holds at that moment, unless a
\* step before start() raises
init_runtime_and_scheduler(ok) ==
    schedulers' = IF ok THEN Append(schedulers, {r.device_id : r \in devices})
                  ELSE schedulers

\* gunicorn imports wsgi.py, which calls init_runtime_and_scheduler
StartWsgi ==
    /\ launch = "wsgi" /\ proc = "starting"
    /\ \E ok \in BOOLEAN : init_runtime_and_scheduler(ok)
    /\ proc' = "serving"
    /\ UNCHANGED <<launch, hook_done, running, reqs, frame, control>>

\* app.py run as a script: __main__ calls init_runtime_and_scheduler
StartMain ==
    /\ launch = "main" /\ proc = "starting"
    /\ \E ok \in BOOLEAN : init_runtime_and_scheduler(ok)
    /\ proc' = "serving"
    /\ UNCHANGED <<launch, hook_done, running, reqs, frame, control>>

\* the app object is served without wsgi.py or __main__
StartFlask ==
    /\ launch = "flask" /\ proc = "starting"
    /\ proc' = "serving"
    /\ UNCHANGED <<launch, hook_done, schedulers, running, reqs, frame, control>>

\* _run_once_wrapper taking the lock without reading the flag again
M__run_once_wrapper(q) ==
    /\ proc = "serving"
    /\ \/ /\ reqs[q].pc = "none"
          /\ \E path \in {"/healthz", "/api/health", "/api/register_device"} :
                reqs' = [reqs EXCEPT ![q] =
                    [path |-> path, ran |-> FALSE,
                     pc |-> IF path \in {"/healthz", "/health", "/api/healthz",
                                          "/api/health"} \/ hook_done
                            THEN "route" ELSE "lock"]]
          /\ UNCHANGED hook_done
       \/ /\ reqs[q].pc = "lock"
          /\ \A o \in DOMAIN reqs : reqs[o].pc # "init"
          /\ reqs' = [reqs EXCEPT ![q].pc = "init"]
          /\ hook_done' = TRUE
    /\ UNCHANGED <<launch, proc, schedulers, running, frame, control>>

\* _run_once_wrapper, the before_request hook the before_first_request shim
\* installs. A request arrives: a health path or a set flag lets it through,
\* otherwise it goes for the lock. With the lock: the flag is read again and,
\* when clear, set before func() is called.
_run_once_wrapper(q) ==
    /\ proc = "serving"
    /\ \/ /\ reqs[q].pc = "none"
          /\ \E path \in {"/healthz", "/api/health", "/api/register_device"} :
                reqs' = [reqs EXCEPT ![q] =
                    [path |-> path, ran |-> FALSE,
                     pc |-> IF path \in {"/healthz", "/health", "/api/healthz",
                                          "/api/health"} \/ hook_done
                            THEN "route" ELSE "lock"]]
          /\ UNCHANGED hook_done
       \/ /\ reqs[q].pc = "lock"
          /\ \A o \in DOMAIN reqs : reqs[o].pc # "init"
          /\ reqs' = [reqs EXCEPT ![q].pc = IF hook_done THEN "route" ELSE "init"]
          /\ hook_done' = TRUE
    /\ UNCHANGED <<launch, proc, schedulers, running, frame, control>>

\* func() of the wrapper: _boot_once calls init_runtime_and_scheduler, then
\* the lock is released and the request goes on to its route (ran: this
\* request called func)
_boot_once(q) ==
    /\ reqs[q].pc = "init"
    /\ \E ok \in BOOLEAN : init_runtime_and_scheduler(ok)
    /\ reqs' = [reqs EXCEPT ![q].pc = "route", ![q].ran = TRUE]
    /\ UNCHANGED <<launch, proc, hook_done, running, frame, control>>

\* register_device: POST /api/register_device of user owner_user_id with a MAC
\* address and, when `image` is set, an image. The image is saved under
\* images/<device_id>.<ext> before add_device is called.
register_device(owner_user_id, mac_address, image) ==
    LET mac == Strip(mac_address)
        valid == /\ Len(mac) = 10
                 /\ mac[3] = "-" /\ mac[6] = "-"
                 /\ \A i \in {1, 2, 4, 5} :
                       \/ IsDigit(mac[i])
                       \/ \E k \in 1..Len(Upper) : mac[i] \in {Upper[k], Lower[k]}
                 /\ \A i \in 7..10 : IsHex(LowerChar(mac[i]))
        mac_norm == StrUpper(mac)
        device_id == StrLower(LastSegment(mac_norm))
        row == Row(_normalize_mac(mac_norm),
                   _derive_device_id_from_mac(_normalize_mac(mac_norm)),
                   owner_user_id)
        created == ~UniqueViolation(row)
        status == IF ~valid THEN "400" ELSE IF created THEN "201" ELSE "409"
    IN  /\ devices' = IF status = "201" THEN devices \cup {row} ELSE devices
        /\ last' = [Last("register", device_id, NoEval, status, <<>>, PyNone)
                       EXCEPT !.msg = [image |-> image],
                              !.io.file = valid /\ image]

\* the route of a request runs: a health check answers, a registration
\* calls register_device
Serve(q) ==
    /\ reqs[q].pc = "route"
    /\ reqs' = [reqs EXCEPT ![q].pc = "done"]
    /\ IF reqs[q].path = "/api/register_device"
       THEN \E u \in Users, mac_address \in Macs, image \in BOOLEAN :
               register_device(u, mac_address, image)
       ELSE UNCHANGED <<devices, last>>
    /\ UNCHANGED <<version, redis_client, latest_sensor_data, plant_control_state,
                   actuator_state, watched, hphase, hcmds, e2e, segment, adding,
                   launch, proc, hook_done, schedulers, running, frame>>

\* the interval trigger of auto_control_job_<d> fires in scheduler s; an
\* instance is started unless one of this job is still running in s
JobStart(s, d) ==
    /\ s \in 1..Len(schedulers)
    /\ d \in schedulers[s]
    /\ <<s, d>> \notin running
    /\ running' = running \cup {<<s, d>>}
    /\ UNCHANGED <<launch, proc, hook_done, schedulers, reqs, frame, control>>

\* the job instance runs check_and_apply_auto_control(d) and ends
JobRun(s, d) ==
    /\ <<s, d>> \in running
    /\ \E hour \in {6, 7}, r1, r2 \in PublishResults :
          check_and_apply_auto_control(d, hour, r1, r2)
    /\ running' = running \ {<<s, d>>}
    /\ UNCHANGED <<launch, proc, hook_done, schedulers, reqs, frame>>

\* the scenario message arrives for the watched device
Message ==
    /\ on_message(segment, Json(ScenarioPayload), Healthy)
    /\ UNCHANGED boot

InitStart ==
    /\ version = "backend_app"
    /\ redis_client = TRUE
    /\ latest_sensor_data = [id \in Keys |-> PyNone]
    /\ plant_control_state = [key \in Registered \X Actuators |-> PyNone]
    /\ watched \in Registered
    /\ actuator_state = [key \in Registered \X {"water_pump", "flash"} |-> PyNone]
    /\ last = Last("init", watched, NoEval, "init", <<>>, PyNone)
    /\ hphase = "idle"
    /\ hcmds = <<>>
    /\ e2e = "idle"
    /\ launch \in {"wsgi", "main", "flask"}
    /\ proc = "starting"
    /\ hook_done = FALSE
    /\ schedulers = <<>>
    /\ running = {}
    /\ segment = SegmentOf(watched)
    /\ devices = {RowOf(ID_2e52)}
    /\ adding = NoCalls
    /\ reqs = NoRequests
    /\ frame = PyNone

NextStart ==
    \/ StartWsgi
    \/ StartMain
    \/ StartFlask
    \/ _run_once_wrapper(1)
    \/ _boot_once(1)
    \/ Serve(1)
    \/ \E s \in 1..2, d \in Registered : JobStart(s, d)
    \/ \E s \in 1..2, d \in Registered : JobRun(s, d)
    \/ Message

SpecStart == InitStart /\ [][NextStart]_vars

\* the scheduler threads and the request thread are scheduled fairly
SpecStartFair ==
    /\ SpecStart
    /\ WF_vars(StartWsgi \/ StartMain \/ StartFlask)
    /\ WF_vars(_run_once_wrapper(1)) /\ WF_vars(_boot_once(1)) /\ WF_vars(Serve(1))
    /\ \A s \in 1..2, d \in Registered :
          WF_vars(JobStart(s, d)) /\ WF_vars(JobRun(s, d))

\* the process start and the requests that arrive around the first-request
\* hook, without the scheduler threads
NextBoot ==
    \/ StartWsgi
    \/ StartMain
    \/ StartFlask
    \/ \E q \in 1..MaxRequests : _run_once_wrapper(q)
    \/ \E q \in 1..MaxRequests : _boot_once(q)
    \/ \E q \in 1..MaxRequests : Serve(q)

SpecBoot == InitStart /\ [][NextBoot]_vars

---------------------------------------------------------------------------
(* Calls followed step by step: `frame` holds the call in progress *)

\* what a step of a call leaves alone besides the caches, `last` and `frame`
steady == <<version, redis_client, latest_sensor_data, watched, hphase, hcmds, e2e,
            segment, devices, adding, launch, proc, hook_done, schedulers, running,
            reqs>>

\* send_config_to_device(d, config_payload) up to wait_for_publish: root
\* filters the payload through its allow-list and publishes what is left,
\* backend_app returns at once for an empty payload and publishes the payload
\* as it is. timeout_param: wait_for_publish of the installed paho-mqtt has
\* the parameter `timeout`; acked: the broker acknowledges the publish.
send_config_to_device(d, config_payload, timeout_param, acked) ==
    LET to_send == IF version = "root" THEN RootToSend(config_payload)
                   ELSE config_payload
        cmd == [Cmd(d, "config", "config", to_send,
                    IF acked THEN "ok" ELSE "failed", PyNone, PyNone)
                   EXCEPT !.topic = IF version = "root" THEN <<"GreenEye/conf", d>>
                                    ELSE @,
                          !.retain = TRUE]
        call == [op |-> "publish", fn |-> "send_config_to_device", dev |-> d,
                 body |-> to_send, timeout_param |-> timeout_param, acked |-> acked]
    IN  /\ frame = PyNone
        /\ IF version = "backend_app" /\ DOMAIN config_payload = {}
           THEN /\ last' = [Last("config", d, NoEval, "returned", <<>>, PyNone)
                               EXCEPT !.msg = [call EXCEPT !.body = config_payload]]
                /\ UNCHANGED frame
           ELSE /\ last' = [Last("config", d, NoEval, "waiting", <<cmd>>, PyNone)
                               EXCEPT !.msg = [call EXCEPT !.body = config_payload]]
                /\ frame' = call
        /\ UNCHANGED <<plant_control_state, actuator_state, steady>>

\* publish_mqtt_message(topic, payload) up to wait_for_publish; the topic and
\* the payload are those of send_actuator_command
publish_mqtt_message(d, device, action, timeout_param, acked) ==
    LET call == [op |-> "publish", fn |-> "publish_mqtt_message", dev |-> d,
                 body |-> RootBody(action, 0), timeout_param |-> timeout_param,
                 acked |-> acked]
        cmd == [Cmd(d, device, action, call.body, IF acked THEN "ok" ELSE "failed",
                    PyNone, PyNone)
                   EXCEPT !.topic = <<"plant/control", d, device>>, !.retain = FALSE]
    IN  /\ frame = PyNone
        /\ last' = [Last("publish", d, NoEval, "waiting", <<cmd>>, PyNone)
                       EXCEPT !.msg = call]
        /\ frame' = call
        /\ UNCHANGED <<plant_control_state, actuator_state, steady>>

\* info.wait_for_publish ends and the function goes on to its end.
\* root send_config_to_device calls wait_for_publish(): it ends when the
\* broker acknowledges, then the flash keys sent are cached.
\* backend_app send_config_to_device calls wait_for_publish(timeout=5) in a
\* try: it ends within 5 s and logs success for info.rc == 0, the code
\* publish() returned; without the parameter the TypeError is logged.
\* publish_mqtt_message calls wait_for_publish(timeout=5) and, on TypeError,
\* wait_for_publish(); it returns info.rc == 0.
wait_for_publish ==
    /\ frame # PyNone /\ frame.op = "publish"
    /\ IF frame.fn = "publish_mqtt_message" \/ version = "root"
       THEN frame.acked \/ (frame.fn = "publish_mqtt_message" /\ frame.timeout_param)
       ELSE TRUE
    /\ last' = [last EXCEPT !.outcome =
                   IF frame.fn = "send_config_to_device" /\ version = "backend_app"
                      /\ ~frame.timeout_param
                   THEN "failure" ELSE "success"]
    /\ actuator_state' =
          IF frame.fn = "send_config_to_device" /\ version = "root"
             /\ RootFlashState(frame.body) # PyNone
          THEN set_redis_data(actuator_state, <<frame.dev, "flash">>,
                              RootFlashState(frame.body))
          ELSE actuator_state
    /\ frame' = PyNone
    /\ UNCHANGED <<plant_control_state, steady>>

\* check_and_apply_auto_control(d) reads the latest reading and the cached
\* states of the actuators
EvalRead(d) ==
    /\ frame = PyNone
    /\ frame' = [op |-> "eval", dev |-> d,
                 latest |-> get_redis_data(latest_sensor_data, d),
                 pump |-> CachedEntry(d, "water_pump"),
                 led |-> CachedEntry(d, "led")]
    /\ UNCHANGED <<plant_control_state, actuator_state, last, steady>>

\* ... and applies its rules to what it read: publishes, cache writes
EvalPublish ==
    /\ frame # PyNone /\ frame.op = "eval"
    /\ \E hour \in {6, 7}, r1, r2 \in PublishResults :
          Cycle(frame.dev, hour, r1, r2, frame.latest, frame.pump, frame.led)
    /\ frame' = PyNone
    /\ UNCHANGED <<launch, proc, hook_done, schedulers, running, reqs>>

NextCalls ==
    \/ Message
    \/ \E device_type \in Actuators, action \in {"on", "off"} :
          handle_manual_control(watched, device_type, action, "ok") /\ UNCHANGED boot
    \/ EvalRead(watched)
    \/ EvalPublish
    \/ \E config_payload \in RootConfigs \cup RequestConfigs \cup {EmptyPayload},
          timeout_param, acked \in BOOLEAN :
          send_config_to_device(watched, config_payload, timeout_param, acked)
    \/ \E device \in Actuators, action \in {"on", "off"}, timeout_param, acked \in BOOLEAN :
          publish_mqtt_message(watched, device, action, timeout_param, acked)
    \/ wait_for_publish

SpecCalls == Init /\ [][NextCalls]_vars

\* a call in progress takes its next step
SpecCallsFair == SpecCalls /\ WF_vars(wait_for_publish)

---------------------------------------------------------------------------
(* The report: intervals out of range *)

\* find_out_of_range_intervals that leaves the last interval open
M_find_out_of_range_intervals(times, values, lo, hi) ==
    LET n == IF Len(times) < Len(values) THEN Len(times) ELSE Len(values)
        state(v) == IF hi # PyNone /\ v > hi.n THEN "high"
                    ELSE IF lo # PyNone /\ v < lo.n THEN "low" ELSE "None"
        closed(out, cur_state, cur_start, t) ==
            IF cur_state # "None" /\ cur_start # <<>>
            THEN Append(out, [start |-> cur_start[1], end |-> t, state |-> cur_state])
            ELSE out
        RECURSIVE loop(_, _, _, _)
        loop(i, out, cur_state, cur_start) ==
            IF i > n THEN out
            ELSE IF state(values[i]) # cur_state
                 THEN loop(i + 1, closed(out, cur_state, cur_start, times[i]),
                           state(values[i]),
                           IF state(values[i]) # "None" THEN <<times[i]>> ELSE <<>>)
                 ELSE loop(i + 1, out, cur_state, cur_start)
    IN  IF times = <<>> \/ values = <<>> \/ (lo = PyNone /\ hi = PyNone) THEN <<>>
        ELSE loop(1, <<>>, "None", <<>>)

\* find_out_of_range_intervals(times, values, lo, hi): the loop over
\* zip(times, values) keeps the state and the start of the open interval
\* (cur_start is <<>> for None), closes it where the state changes and, after
\* the loop, at times[-1]
find_out_of_range_intervals(times, values, lo, hi) ==
    LET n == IF Len(times) < Len(values) THEN Len(times) ELSE Len(values)
        state(v) == IF hi # PyNone /\ v > hi.n THEN "high"
                    ELSE IF lo # PyNone /\ v < lo.n THEN "low" ELSE "None"
        closed(out, cur_state, cur_start, t) ==
            IF cur_state # "None" /\ cur_start # <<>>
            THEN Append(out, [start |-> cur_start[1], end |-> t, state |-> cur_state])
            ELSE out
        RECURSIVE loop(_, _, _, _)
        loop(i, out, cur_state, cur_start) ==
            IF i > n THEN closed(out, cur_state, cur_start, times[Len(times)])
            ELSE IF state(values[i]) # cur_state
                 THEN loop(i + 1, closed(out, cur_state, cur_start, times[i]),
                           state(values[i]),
                           IF state(values[i]) # "None" THEN <<times[i]>> ELSE <<>>)
                 ELSE loop(i + 1, out, cur_state, cur_start)
    IN  IF times = <<>> \/ values = <<>> \/ (lo = PyNone /\ hi = PyNone) THEN <<>>
        ELSE loop(1, <<>>, "None", <<>>)

\* series of a report: sample times in time order, values in tenths
Series(S) == UNION {[1..len -> S] : len \in 0..MaxSeries}

\* the range of a field in the standards table: either bound may be missing
Ranges ==
    {[lo |-> lo, hi |-> hi] :
        lo \in {PyNone, JNum(150), JNum(200)}, hi \in {PyNone, JNum(200), JNum(250)}}

\* the report asks for the intervals of one series
Intervals ==
    /\ frame # PyNone /\ frame.op = "series" /\ ~frame.done
    /\ frame' = [frame EXCEPT
                    !.done = TRUE,
                    !.out = find_out_of_range_intervals(frame.times, frame.values,
                                                        frame.lo, frame.hi)]
    /\ UNCHANGED <<plant_control_state, actuator_state, last, steady>>

InitIntervals ==
    /\ version = "backend_app"
    /\ redis_client = TRUE
    /\ watched = ID_6c18
    /\ segment = SegmentOf(watched)
    /\ latest_sensor_data = [id \in Keys |-> PyNone]
    /\ plant_control_state = [key \in Registered \X Actuators |-> PyNone]
    /\ actuator_state = [key \in Registered \X {"water_pump", "flash"} |-> PyNone]
    /\ devices = {RowOf(ID_6c18)}
    /\ adding = NoCalls
    /\ reqs = NoRequests
    /\ last = Last("init", watched, NoEval, "init", <<>>, PyNone)
    /\ hphase = "idle"
    /\ hcmds = <<>>
    /\ e2e = "idle"
    /\ launch = "flask"
    /\ proc = "serving"
    /\ hook_done = TRUE
    /\ schedulers = <<Registered>>
    /\ running = {}
    /\ \E times \in {t \in Series(1..3) : \A i \in 1..Len(t) - 1 : t[i] <= t[i + 1]},
          values \in Series({100, 200, 300}), range \in Ranges :
          frame = [op |-> "series", times |-> times, values |-> values,
                   lo |-> range.lo, hi |-> range.hi, done |-> FALSE, out |-> <<>>]

SpecIntervals == InitIntervals /\ [][Intervals]_vars

---------------------------------------------------------------------------
(* Retry on a locked database *)

\* _retry_locked that goes on after any OperationalError
M__retry_locked(outcome) ==
    /\ frame # PyNone /\ frame.op = "retry" /\ frame.result = "running"
    /\ frame.i < frame.retries
    /\ frame' =
          IF outcome = "ok"
          THEN [frame EXCEPT !.calls = Append(@, outcome), !.result = "returned"]
          ELSE IF outcome \in {"locked", "no such table"}
                  /\ frame.i < frame.retries - 1
               THEN [frame EXCEPT !.calls = Append(@, outcome), !.i = @ + 1,
                                  !.slept = @ + (frame.i + 1)]
               ELSE [frame EXCEPT !.calls = Append(@, outcome), !.result = "raised"]
    /\ UNCHANGED <<plant_control_state, actuator_state, last, steady>>

\* one pass of the loop of _retry_locked(fn, retries): fn returns ("ok") or
\* raises sqlite3.OperationalError with 'locked' in its text ("locked"),
\* another OperationalError ("no such table") or another exception
\* ("IntegrityError"); slept counts the delays waited
_retry_locked(outcome) ==
    /\ frame # PyNone /\ frame.op = "retry" /\ frame.result = "running"
    /\ frame.i < frame.retries
    /\ frame' =
          IF outcome = "ok"
          THEN [frame EXCEPT !.calls = Append(@, outcome), !.result = "returned"]
          ELSE IF outcome \in {"locked", "no such table"}
                  /\ outcome = "locked" /\ frame.i < frame.retries - 1
               THEN [frame EXCEPT !.calls = Append(@, outcome), !.i = @ + 1,
                                  !.slept = @ + (frame.i + 1)]
               ELSE [frame EXCEPT !.calls = Append(@, outcome), !.result = "raised"]
    /\ UNCHANGED <<plant_control_state, actuator_state, last, steady>>

InitRetry ==
    /\ version \in Versions
    /\ redis_client = TRUE
    /\ watched = ID_6c18
    /\ segment = SegmentOf(watched)
    /\ latest_sensor_data = [id \in Keys |-> PyNone]
    /\ plant_control_state = [key \in Registered \X Actuators |-> PyNone]
    /\ actuator_state = [key \in Registered \X {"water_pump", "flash"} |-> PyNone]
    /\ devices = {}
    /\ adding = NoCalls
    /\ reqs = NoRequests
    /\ last = Last("init", watched, NoEval, "init", <<>>, PyNone)
    /\ hphase = "idle"
    /\ hcmds = <<>>
    /\ e2e = "idle"
    /\ launch = "flask"
    /\ proc = "serving"
    /\ hook_done = TRUE
    /\ schedulers = <<Registered>>
    /\ running = {}
    /\ \E retries \in 1..Retries :
          frame = [op |-> "retry", retries |-> retries, i |-> 0, calls |-> <<>>,
                   slept |-> 0, result |-> "running"]

\* fn returns or raises every time it is called
SpecRetry ==
    /\ InitRetry
    /\ [][\E outcome \in {"ok", "locked", "no such table", "IntegrityError"} :
              _retry_locked(outcome)]_vars
    /\ WF_vars(\E outcome \in {"ok", "locked", "no such table", "IntegrityError"} :
                  _retry_locked(outcome))

---------------------------------------------------------------------------
(* Properties of the evaluator and of ingestion *)

\* the commands of the last handler that address one actuator
CmdsFor(actuator) == SelectSeq(last.cmds, LAMBDA c : c.actuator = actuator)

\* C1: over the cycles of a device whose cached moisture is first below 300
\* (pump cached 'off'), then inside [300, 700], then above 700, the irrigation
\* commands emitted are exactly one "on" followed by one "off"
C1_Hysteresis ==
    /\ hphase \in {"low", "band"} => hcmds = <<"on">>
    /\ hphase = "high" => hcmds = <<"on", "off">>

\* C2: a cycle emits an irrigation command only if the cached moisture is below
\* 300 and the cached pump state is not 'on', or above 700 and the state is not
\* 'off'; in every other case (boundary values, matching state, moisture
\* absent) it emits none
C2_NoDeadBandCommand ==
    last.op = "eval" =>
        /\ Len(CmdsFor("water_pump")) <= 1
        /\ CmdsFor("water_pump") # <<>> =>
              /\ IsNum(last.sm)
              /\ \/ last.sm.n < 3000 /\ last.pump # "on"
                 \/ last.sm.n > 7000 /\ last.pump # "off"

C2_Witness ==
    /\ last.op = "eval"
    /\ last.sm = JNum(7500)
    /\ last.pump = "on"
    /\ Len(CmdsFor("water_pump")) = 1
    /\ CmdsFor("water_pump")[1].action = "off"

\* C3: when the publish of a command fails, the cached state of its
\* (device, actuator) is the one it was before the command
C3_NoWriteOnFailedPublish ==
    \A i \in 1..Len(last.cmds) :
        LET c == last.cmds[i]
        IN  c.result # "ok" /\ c.actuator \in Actuators =>
                CachedEntry(last.dev, c.actuator) = c.before

\* C4: after a cycle that emitted a command for an actuator, the cached state
\* the evaluator reads for that actuator is the commanded action
C4_CommandOverwritesState ==
    last.op = "eval" =>
        \A i \in 1..Len(last.cmds) :
            ReadStatus(last.dev, last.cmds[i].actuator) = last.cmds[i].action

\* C6: a cycle that runs (to its end) outside the active hours with the cached
\* light state 'on' emits a light-off command, whatever light_lux is, absent
\* included
C6_ForcedOffOutsideHours ==
    last.op = "eval" /\ last.outcome = "done" /\ (last.hour < 7 \/ last.hour > 20)
        /\ last.led = "on" =>
            \E i \in 1..Len(last.cmds) :
                last.cmds[i].actuator = "led" /\ last.cmds[i].action = "off"

C8_EndToEnd ==
    redis_client =>
        /\ e2e = "ingested" =>
              /\ latest_sensor_data[ID_6c18] # PyNone
              /\ Get(latest_sensor_data[ID_6c18], "temperature") = JNum(245)
              /\ Get(latest_sensor_data[ID_6c18], "soil_moisture") = JNum(2500)
        /\ e2e = "evaluated" =>
              /\ Len(CmdsFor("water_pump")) = 1
              /\ CmdsFor("water_pump")[1].action = "on"
              /\ ReadStatus(ID_6c18, "water_pump") = "on"

\* C9: a cycle that finds no latest_sensor_data entry (never stored, expired, or
\* no cache client) emits no command, leaves every cached actuator state as it
\* was and ends as "no data"; a cycle that finds an entry never ends as
\* "no data"; no cycle hands a point to the time-series store
C9_NoDataCycle ==
    [][ last'.op = "eval" =>
          /\ last'.point = PyNone
          /\ IF get_redis_data(latest_sensor_data, last'.dev) = PyNone
             THEN /\ last'.cmds = <<>>
                  /\ last'.outcome = "no_data"
                  /\ UNCHANGED <<plant_control_state, actuator_state, latest_sensor_data>>
             ELSE last'.outcome # "no_data" ]_vars

\* an expired entry: the cycle after an Expire of the watched device's key
C9_Witness ==
    /\ last.op = "eval"
    /\ last.outcome = "no_data"
    /\ redis_client
    /\ \E key \in Registered \X Actuators : plant_control_state[key] # PyNone

\* C10: a point is persisted (and the cache entry written) only for a reading
\* with at least one non-null canonical sensor field
C10_DiscardWithoutFields ==
    last.op = "ingest" /\ last.point # PyNone =>
        DOMAIN last.point \cap CanonicalFields # {}

\* the last handler processed a decoded JSON object
HandledObject(l) ==
    l.op \in {"ingest", "image"} /\ l.msg.text = "json" /\ IsDict(l.msg.obj)

\* C11: a message is one kind only, decided by the presence of the key
\* plant_img: a payload that holds it causes no time-series write and no update
\* of latest_sensor_data (whatever else it holds, whatever its image value),
\* and a payload without it writes no image file, no plant_images row, no
\* latest_image and no latest_ai_diagnosis
C11_OneKindPerMessage ==
    [][ HandledObject(last') =>
          IF "plant_img" \in DOMAIN last'.msg.obj
          THEN /\ last'.io.attempts = 0
               /\ last'.point = PyNone
               /\ UNCHANGED latest_sensor_data
          ELSE /\ ~last'.io.file
               /\ ~last'.io.meta
               /\ ~last'.io.latest_image
               /\ ~last'.io.latest_ai ]_vars

\* an image frame that also carries a sensor field was written to disk
C11_Witness ==
    /\ last.op = "image"
    /\ last.io.file
    /\ "soil_humi" \in DOMAIN last.msg.obj

\* C12: the write of a point is attempted at most twice; a point is dropped only
\* after the first attempt failed, the client was replaced by a fresh one and
\* the one retry failed too; a point is stored at most once, and a second
\* attempt is made only with a fresh client
C12_WriteRetriedOnce ==
    last.op = "ingest" /\ last.outcome = "stored" =>
        /\ last.io.attempts <= 2
        /\ last.io.stored <= 1
        /\ last.io.attempts = 2 => last.io.fresh = 1
        /\ last.io.attempts >= 1 /\ last.io.stored = 0 =>
              last.io.attempts = 2 /\ last.io.fresh = 1

\* C13: no message lets an exception out of on_message; a message changes no
\* cache entry of a device other than its own; and a message whose decoding or
\* processing failed leaves every store as it was, so that the messages after
\* it are processed as if it had not arrived
C13_FailureIsolation ==
    [][ last'.op \in {"ingest", "image"} =>
          /\ last'.outcome # "escaped"
          /\ \A id \in Keys \ {last'.dev} :
                latest_sensor_data'[id] = latest_sensor_data[id]
          /\ last'.outcome \in {"decode_error", "error", "image_error", "escaped"} =>
                /\ last'.io = NoIO
                /\ last'.point = PyNone
                /\ UNCHANGED <<version, redis_client, latest_sensor_data,
                               plant_control_state, actuator_state, devices>> ]_vars

\* an undecodable message arrived after a reading of the device was cached
C13_Witness ==
    /\ last.outcome = "decode_error"
    /\ \E id \in Keys \ {ID_2e52} : latest_sensor_data[id] # PyNone
    /\ latest_sensor_data[ID_2e52] = OtherDoc

\* C14: with the cache available, a sensor message of device d with at least
\* one valid field leaves latest_sensor_data:d holding exactly its valid fields
\* and a timestamp, each field coming from a key of this very message; the
\* entries of the other devices stay as they were; and a message that stores
\* no reading leaves every entry as it was
C14_CacheOverwritten ==
    [][ last'.op \in {"ingest", "image"} =>
          IF last'.outcome = "stored"
          THEN redis_client =>
                 LET doc == latest_sensor_data'[last'.dev]
                 IN  /\ doc # PyNone
                     /\ DOMAIN doc = DOMAIN last'.point \cup {"timestamp"}
                     /\ \A f \in DOMAIN last'.point : doc[f] = last'.point[f]
                     /\ \A f \in DOMAIN doc \cap CanonicalFields :
                           AliasesOf(f) \cap DOMAIN last'.msg.obj # {}
                     /\ \A id \in Keys \ {last'.dev} :
                           latest_sensor_data'[id] = latest_sensor_data[id]
          ELSE UNCHANGED latest_sensor_data ]_vars

\* the entry of the device holds a temperature only, the entry of the other
\* device being the one it held before
C14_Witness ==
    /\ last.op = "ingest"
    /\ last.outcome = "stored"
    /\ last.dev # ID_2e52
    /\ DOMAIN latest_sensor_data[last.dev] = {"timestamp", "temperature"}
    /\ latest_sensor_data[ID_2e52] = OtherDoc

\* C15: whatever the interleaving of add_device calls, the registry never
\* holds two rows with the same device_id or the same mac_address, no row is
\* ever changed or removed by a registration (so its owner_user_id stays), and
\* a call whose MAC or derived device_id was in the registry when it was made
\* returns False and changes nothing
C15_FirstRegistrationWins ==
    [][ /\ \A r1, r2 \in devices' :
              (r1.device_id = r2.device_id \/ r1.mac_address = r2.mac_address)
                  => r1 = r2
        /\ devices \subseteq devices'
        /\ last'.op = "add_device" /\ last'.msg.existed =>
              last'.outcome = "False" /\ UNCHANGED devices ]_vars

\* two users registered the same device at once: the one whose INSERT came
\* second got False from the UNIQUE constraint, and the row is the other's
C15_Witness ==
    /\ last.op = "add_device"
    /\ last.outcome = "False"
    /\ ~last.msg.existed
    /\ \E r \in devices : r.device_id = last.dev /\ r.owner_user_id # last.msg.owner_user_id

\* C16: an image message with an image the deployed generation can decode has its file written whether
\* or not its device is in the registry (unless the handler failed), and a
\* plant_images row is inserted only when the registry holds a row of the
\* device at that moment
C16_ImageMetadataAsymmetry ==
    last.op = "image" =>
        LET img == Get(last.msg.obj, "plant_img")
            decodable ==
                /\ IsStr(img)
                /\ IF version = "root" THEN IsHexText(img.s)
                   ELSE B64Decode(img.s) = "image"
        IN  /\ decodable /\ last.outcome # "error" => last.io.file
            /\ last.io.meta => \E r \in devices : r.device_id = last.dev

\* an image of an unregistered device: the file is on disk, no row was inserted
C16_Witness ==
    /\ last.op = "image"
    /\ last.io.file
    /\ ~last.io.meta
    /\ \A r \in devices : r.device_id # ID_6c18

\* C17: whatever the form of the topic segment of device 6c18 (short id,
\* device code, MAC with colons or hyphens), the device_id under which a
\* message is written (a cache key and a time-series tag, or an image file
\* name) has exactly 4 lower-case characters and is 6c18
C17_CanonicalDeviceId ==
    (\/ last.op = "ingest" /\ last.outcome = "stored"
     \/ last.op = "image" /\ last.io.file) =>
        /\ Len(last.dev) = 4
        /\ last.dev = StrLower(last.dev)
        /\ last.dev = ID_6c18

\* C18: for the resolvers of backend_app (the one of process_incoming_data,
\* normalize_device_id and _to_device_id_from_any) and every segment x
\* received: resolve(resolve(x)) = resolve(x); resolve(x) = x when x is a
\* canonical id; and resolve(x) = d when x is the device code ge-sd-<d> in
\* any letter case
C18_ResolveIdempotent ==
    version = "backend_app" /\ last.op \in {"ingest", "image"}
        /\ last.outcome # "decode_error" =>
        LET x == last.seg
            d == ID_6c18
        IN  /\ BackendDeviceId(last.dev) = last.dev
            /\ normalize_device_id(normalize_device_id(x)) = normalize_device_id(x)
            /\ _to_device_id_from_any(_to_device_id_from_any(x))
                  = _to_device_id_from_any(x)
            /\ (Len(x) = 4 /\ \A i \in 1..Len(x) : IsHex(x[i])) =>
                  /\ last.dev = x
                  /\ normalize_device_id(x) = x
                  /\ _to_device_id_from_any(x) = x
            /\ StrLower(x) = Prefix \o d =>
                  /\ last.dev = d
                  /\ normalize_device_id(x) = d
                  /\ _to_device_id_from_any(x) = d

\* a message on the upper-case device code was handled under the short id
C18_Witness ==
    /\ version = "backend_app"
    /\ last.op = "ingest"
    /\ last.seg = StrUpper(ID_ge_sd_6c18)
    /\ last.dev = ID_6c18

\* C19: for a sensor payload, every canonical field of which the payload holds
\* an alias with a value that can be coerced (0 included, every alias of the
\* table included) is in the fields handed to the sink, coerced to int for the
\* battery and to float for the others; a value that cannot be coerced counts
\* as absent; and when no canonical field can be mapped nothing is handed
\* over or persisted
C19_FieldMappingTotality ==
    HandledObject(last) /\ ~IsImageMessage(last.msg.obj) /\ last.outcome # "error" =>
        LET payload == last.msg.obj
            expected == [f \in CanonicalFields |->
                            IF f = "battery" THEN _to_int(_pick(payload, AliasTable[f]))
                            ELSE _to_float(_pick(payload, AliasTable[f]))]
            mapped == {f \in CanonicalFields : expected[f] # PyNone}
        IN  IF mapped = {}
            THEN last.point = PyNone /\ last.outcome = "discarded"
            ELSE /\ last.point # PyNone
                 /\ \A f \in mapped :
                       f \in DOMAIN last.point /\ last.point[f] = expected[f]

\* C20: every command published for a device, by an evaluation cycle, by
\* manual control or by the control API, is a retained message on a topic of
\* that device and holds only the keys of the actuator commands and the
\* allow-listed configuration keys with values in their ranges
C20_CommandsAllowListed ==
    \A i \in 1..Len(last.cmds) :
        LET c == last.cmds[i]
        IN  /\ c.retain
            /\ c.topic[2] = last.dev
            /\ \A key \in DOMAIN c.body :
                  LET value == c.body[key]
                  IN  \/ key \in {"action", "duration_sec", "water_pump_action",
                                  "water_pump_duration", "humidifier_action"}
                      \/ /\ key \in DOMAIN AllowedInt
                         /\ IsPyInt(value)
                         /\ AllowedInt[key][1] * Scale <= value.n
                         /\ value.n <= AllowedInt[key][2] * Scale
                      \/ key = "pwr_mode" /\ IsStr(value) /\ value.s \in AllowedStr

\* C5: at most one auto-control evaluation per device is in progress, however
\* the runtime initialisation was triggered
C5_OneEvaluationPerDevice ==
    \A d \in Registered : Cardinality({s \in 1..2 : <<s, d>> \in running}) <= 1


---------------------------------------------------------------------------
(* Properties of start-up, requests and registration *)

\* C21: once a scheduler has been started, every device of the registry,
\* registered before start-up or by register_device while the process runs,
\* has an auto-control evaluation cycle started again and again, under fair
\* scheduling
C21_EveryDeviceEvaluated ==
    \A d \in Registered :
        []((\E r \in devices : r.device_id = d) /\ schedulers # <<>>
              => <>(\E s \in 1..2 : <<s, d>> \in running))

\* C22: no publish blocks for ever: every call of send_config_to_device and
\* of publish_mqtt_message that waits for its publish ends, and a call whose
\* publish the broker did not acknowledge ends in a logged failure
C22_PublishTerminates ==
    /\ (frame # PyNone /\ frame.op = "publish") ~> (frame = PyNone)
    /\ [](last.op \in {"config", "publish"} /\ last.outcome # "waiting"
             /\ ~last.msg.acked /\ last.cmds # <<>>
          => last.outcome = "failure")

\* C23: among the requests that arrive around the first one, at most one
\* calls the wrapped init function, none of them on a health path, and once
\* a request outside the health paths has passed the hook exactly one has
C23_InitRunsOnce ==
    LET callers == {q \in DOMAIN reqs : reqs[q].pc = "init" \/ reqs[q].ran}
        health == {"/healthz", "/health", "/api/healthz", "/api/health"}
    IN  /\ Cardinality(callers) <= 1
        /\ \A q \in callers : reqs[q].path \notin health
        /\ (\E q \in DOMAIN reqs : /\ reqs[q].pc \in {"route", "done"}
                                   /\ reqs[q].path \notin health)
              => Cardinality(callers) = 1

\* two requests outside the health paths went for the lock before the flag
\* was set; one of them called the init function, the other did not
C23_Witness ==
    \E q1, q2 \in DOMAIN reqs :
        /\ reqs[q1].ran
        /\ reqs[q2].pc = "lock"
        /\ reqs[q2].path = "/api/register_device"

\* C24: no request outside the health paths is at its route while the init
\* function of the first-request hook is still being executed by another
C24_InitBeforeRoute ==
    \A q1, q2 \in DOMAIN reqs :
        reqs[q1].pc = "init" /\ reqs[q2].path = "/api/register_device"
            => reqs[q2].pc \notin {"route", "done"}

\* C26: a register_device request answered 409 because the device exists
\* leaves the registry as it was and writes no file images/<device_id>.<ext>,
\* also when the request carried an image
C26_RejectedRegistrationChangesNothing ==
    [][ /\ \E q \in DOMAIN reqs : /\ reqs[q].path = "/api/register_device"
                                  /\ reqs[q].pc = "route" /\ reqs'[q].pc = "done"
        /\ last'.outcome = "409"
        => devices' = devices /\ ~last'.io.file ]_vars

---------------------------------------------------------------------------
(* Properties of calls followed step by step *)

\* C25: whatever manual control command runs between the reads and the
\* publishes of an evaluation cycle, no command the cycle publishes has the
\* action that the cache holds as the state of its actuator at that moment
C25_NoRedundantCommandUnderRace ==
    [][ frame # PyNone /\ frame.op = "eval" /\ frame' = PyNone =>
          \A i \in 1..Len(last'.cmds) :
              last'.cmds[i].action # ReadStatus(last'.dev, last'.cmds[i].actuator) ]_vars

\* C28: a call of send_config_to_device whose payload has no publishable key
\* (it is empty, or the allow-list rejects every key) publishes nothing, so
\* the retained message of the device stays, and leaves actuator_state as it is
C28_NothingPublishableNothingPublished ==
    [][ /\ frame = PyNone
        /\ last'.op = "config" /\ last'.outcome \in {"returned", "waiting"}
        /\ DOMAIN (IF version = "root" THEN RootToSend(last'.msg.body)
                   ELSE last'.msg.body) = {}
        => /\ last'.cmds = <<>>
           /\ actuator_state' = actuator_state ]_vars

---------------------------------------------------------------------------
(* Properties of the report *)

\* the samples the loop of find_out_of_range_intervals sees, and the state
\* of each
Samples ==
    1..(IF Len(frame.times) < Len(frame.values) THEN Len(frame.times)
        ELSE Len(frame.values))

StateOf(i) ==
    IF frame.hi # PyNone /\ frame.values[i] > frame.hi.n THEN "high"
    ELSE IF frame.lo # PyNone /\ frame.values[i] < frame.lo.n THEN "low"
    ELSE "None"

\* the samples at which an out-of-range state begins, in order
Changes ==
    SelectSeq([i \in Samples |-> i],
              LAMBDA i : StateOf(i) # "None" /\ (i = 1 \/ StateOf(i - 1) # StateOf(i)))

---------------------------------------------------------------------------
(* Properties of the retry on a locked database *)

\* C30: _retry_locked calls fn at most retries (5) times; it returns at the
\* first success, calls fn again only after an OperationalError that says
\* 'locked', raises any other error without a further call, raises the lock
\* error after the last attempt, and comes to an end
C30_RetryBounded ==
    /\ [](frame # PyNone /\ frame.op = "retry" =>
            LET calls == frame.calls
            IN  /\ Len(calls) <= frame.retries /\ frame.retries <= Retries
                /\ \A k \in 1..Len(calls) - 1 : calls[k] = "locked"
                /\ frame.result = "running" =>
                      /\ Len(calls) < frame.retries
                      /\ \A k \in 1..Len(calls) : calls[k] = "locked"
                /\ frame.result = "returned" => calls[Len(calls)] = "ok"
                /\ frame.result = "raised" =>
                      /\ calls[Len(calls)] # "ok"
                      /\ calls[Len(calls)] = "locked" => Len(calls) = frame.retries)
    /\ <>(frame # PyNone /\ frame.op = "retry" /\ frame.result # "running")

\* the database was locked at each of the five calls and the error is raised
C30_Witness ==
    /\ frame # PyNone /\ frame.op = "retry"
    /\ frame.retries = Retries
    /\ frame.calls = [k \in 1..Retries |-> "locked"]
    /\ frame.result = "raised"

=============================================================================
